---- MODULE Spec2Model ----
(***************************************************************************)
(* A model of the local development servers of this repository:           *)
(*   variant "basic" : src/server_basic.py (hardened handler, explicit     *)
(*                     bind/activate, readiness poll)                      *)
(*   variant "plain" : src/server.py (stock SimpleHTTPRequestHandler,      *)
(*                     TCPServer constructed with bind_and_activate)       *)
(* The process is a sequential program; pc is its position.  The           *)
(* environment supplies the command line, the file system, the outcome of  *)
(* each system call, the requests, and KeyboardInterrupt.                  *)
(***************************************************************************)
EXTENDS Integers, Sequences, FiniteSets, TLC

\* ------------------------------------------------------------- bounds
\* Requests handled by one run of serve_forever.
MaxRequests == 2

\* ---------------------------------------------------------- constants
DEFAULT_PORT == 8000
MinPort == 1
MaxPort == 65535
\* One tick is the 0.1 s of time.sleep(0.1) in check_server_ready.
TicksPerSecond == 10
ReadyTimeoutSeconds == 5
ConnectTimeoutSeconds == 1
\* Windows socket codes the handlers treat as an ordinary disconnect.
WSAECONNABORTED == 10053
WSAECONNRESET == 10054
\* Status of a Python process ended by an uncaught KeyboardInterrupt.
UncaughtInterruptStatus == 130

Variants == {"basic", "plain"}

\* ------------------------------------------------------- command line
\* sys.argv[1] as a sequence of characters.
ArgvSamples ==
    { <<"1">>, <<"0">>, <<"-", "1">>,
      <<"6", "5", "5", "3", "5">>, <<"6", "5", "5", "3", "6">>,
      <<"a", "b", "c">>, <<"8", "0", "x">>, <<>> }

Digits == {"0", "1", "2", "3", "4", "5", "6", "7", "8", "9"}

DigitValue(c) ==
    CASE c = "0" -> 0 [] c = "1" -> 1 [] c = "2" -> 2 [] c = "3" -> 3
      [] c = "4" -> 4 [] c = "5" -> 5 [] c = "6" -> 6 [] c = "7" -> 7
      [] c = "8" -> 8 [] c = "9" -> 9

RECURSIVE DecimalValue(_, _)
DecimalValue(s, acc) ==
    IF s = <<>> THEN acc
    ELSE DecimalValue(Tail(s), acc * 10 + DigitValue(Head(s)))

\* int(text): an optional sign and at least one digit, else ValueError.
IntBody(s) == IF s # <<>> /\ Head(s) \in {"-", "+"} THEN Tail(s) ELSE s

IntParses(s) ==
    /\ IntBody(s) # <<>>
    /\ \A i \in 1..Len(IntBody(s)) : IntBody(s)[i] \in Digits

int(s) ==
    IF s # <<>> /\ Head(s) = "-"
    THEN 0 - DecimalValue(IntBody(s), 0)
    ELSE DecimalValue(IntBody(s), 0)

\* The range test of server_basic.py's __main__; server.py has none.
PortRejected(v, p) == v = "basic" /\ (p < MinPort \/ p > MaxPort)

\* socket.bind() takes a port in 0..65535, else OverflowError.
BindAcceptsPort(p) == p >= 0 /\ p <= MaxPort

\* ------------------------------------------------------------- errors
NoError == [cls |-> "None", errno |-> 0, winerror |-> 0]

\* winerror = -1: the exception has no winerror attribute (POSIX).
ConnectionErrors ==
    { [cls |-> "BrokenPipeError", errno |-> 32, winerror |-> -1],
      [cls |-> "ConnectionAbortedError", errno |-> 106,
       winerror |-> WSAECONNABORTED],
      [cls |-> "OSError", errno |-> 5, winerror |-> -1] }

TranslateError == [cls |-> "ValueError", errno |-> 0, winerror |-> -1]
LoggingError == [cls |-> "ValueError", errno |-> 0, winerror |-> -1]

IsOSError(e) ==
    e.cls \in {"OSError", "BrokenPipeError", "ConnectionResetError",
               "ConnectionAbortedError"}

\* getattr(e, 'winerror', getattr(e, 'errno', None))
error_code(e) == IF e.winerror # -1 THEN e.winerror ELSE e.errno

IsPlainDisconnect(e) == error_code(e) \in {WSAECONNABORTED, WSAECONNRESET}

\* ----------------------------------------------------------- requests
Methods == {"GET", "HEAD", "OPTIONS", "POST"}
\* Request paths as their segments: /, /index.html, /nofile,
\* /../index.html.
Paths == { <<>>, <<"index.html">>, <<"nofile">>, <<"..", "index.html">> }

\* What goes wrong while one request is handled: nothing, the library's
\* path translation raising, or the client going away while the headers
\* or the body are written.
Faults ==
    { [kind |-> "none", err |-> NoError],
      [kind |-> "translate", err |-> TranslateError] }
    \cup { [kind |-> "headers", err |-> e] :
             e \in {x \in ConnectionErrors : x.cls = "BrokenPipeError"} }
    \cup { [kind |-> "body", err |-> e] : e \in ConnectionErrors }

\* What writing a traceback to stderr raises, if anything.
StderrFaults == {NoError, LoggingError}

Requests ==
    [method : Methods, path : Paths, fault : Faults, stderr : StderrFaults]

NoRequest ==
    [method |-> "none", path |-> <<>>,
     fault |-> [kind |-> "none", err |-> NoError], stderr |-> NoError]

\* ------------------------------------------------------- file system
\* The served root holds index.html or nothing.
isdir(p) == p = <<>>
isfile(idx, p) == idx /\ p = <<"index.html">>

\* posixpath.normpath on an absolute path: ".." removes the segment
\* before it and is dropped at the root.
RECURSIVE normpath(_, _)
normpath(segs, acc) ==
    IF segs = <<>> THEN acc
    ELSE IF Head(segs) = ".."
         THEN normpath(Tail(segs),
                       IF acc = <<>> THEN <<>>
                       ELSE SubSeq(acc, 1, Len(acc) - 1))
         ELSE normpath(Tail(segs), Append(acc, Head(segs)))

IsPlainName(w) == w \notin {".", ".."}

\* translate_path: the library's translation (normalise, drop "." and
\* ".."), which server_basic.py wraps to log and re-raise.
translate_path(v, r) ==
    IF r.fault.kind = "translate"
    THEN [path |-> <<>>, raised |-> r.fault.err,
          logged |-> IF v = "basic" THEN 1 ELSE 0]
    ELSE [path |-> SelectSeq(normpath(r.path, <<>>), IsPlainName),
          raised |-> NoError, logged |-> 0]

\* ------------------------------------------------------------ headers
CORSHeaders ==
    {"Access-Control-Allow-Origin", "Access-Control-Allow-Methods",
     "Access-Control-Allow-Headers", "Cache-Control"}

\* The headers end_headers adds to every response.
end_headers(v) == IF v = "basic" THEN CORSHeaders ELSE {}

ResponseHeaders(v, status, body) ==
    {"Server", "Date"}
    \cup (IF body \in {"file", "listing"} \/ status = 404 \/ status = 501
          THEN {"Content-Type", "Content-Length"} ELSE {})
    \cup end_headers(v)

\* ----------------------------------------------------- the do_ methods
\* A plan: what the method sets out to send.  copy: the body is written
\* by copyfile.
Plan(status, body, copy, raised) ==
    [status |-> status, body |-> body, copy |-> copy, raised |-> raised]

\* send_error: an error page, without a body for HEAD.
send_error(code, method) ==
    Plan(code, IF method = "HEAD" THEN "none" ELSE "error_page",
         FALSE, NoError)

send_head(v, idx, r) ==
    LET t == translate_path(v, r) IN
    IF t.raised # NoError THEN Plan(0, "none", FALSE, t.raised)
    ELSE IF isdir(t.path)
         THEN IF isfile(idx, Append(t.path, "index.html"))
              THEN Plan(200, "file", TRUE, NoError)
              ELSE Plan(200, "listing", TRUE, NoError)
         ELSE IF isfile(idx, t.path)
              THEN Plan(200, "file", TRUE, NoError)
              ELSE send_error(404, r.method)

do_GET(v, idx, r) == send_head(v, idx, r)

do_HEAD(v, idx, r) ==
    LET h == send_head(v, idx, r) IN
    Plan(h.status, "none", FALSE, h.raised)

\* do_OPTIONS exists in server_basic.py's handler only; without it the
\* library answers 501 Unsupported method.
do_OPTIONS(v, r) ==
    IF v = "basic" THEN Plan(200, "none", FALSE, NoError)
    ELSE send_error(501, r.method)

\* The library's dispatch on 'do_' + command.
Dispatch(v, idx, r) ==
    CASE r.method = "GET" -> do_GET(v, idx, r)
      [] r.method = "HEAD" -> do_HEAD(v, idx, r)
      [] r.method = "OPTIONS" -> do_OPTIONS(v, r)
      [] OTHER -> send_error(501, r.method)

NoResponse ==
    [status |-> 0, headers |-> {}, body |-> "none", complete |-> FALSE]

\* Writing the planned response to the client's socket.  where: the
\* place the exception is raised.
Transmit(v, plan, fault) ==
    IF plan.raised # NoError
    THEN [response |-> NoResponse, raised |-> plan.raised,
          where |-> "translate_path"]
    ELSE IF fault.kind = "headers"
    THEN [response |-> NoResponse, raised |-> fault.err,
          where |-> "end_headers"]
    ELSE IF fault.kind = "body" /\ plan.body # "none"
    THEN [response |->
              [status |-> plan.status,
               headers |-> ResponseHeaders(v, plan.status, plan.body),
               body |-> "partial", complete |-> FALSE],
          raised |-> fault.err,
          where |-> IF plan.copy THEN "copyfile" ELSE "send_error"]
    ELSE [response |->
              [status |-> plan.status,
               headers |-> ResponseHeaders(v, plan.status, plan.body),
               body |-> plan.body, complete |-> TRUE],
          raised |-> NoError, where |-> "none"]

\* ------------------------------------------------ exception handling
\* copyfile of server_basic.py: log unless an ordinary disconnect, then
\* re-raise.  The library's copyfile just raises.
copyfile(v, e) ==
    [logged |-> IF v = "basic" /\ IsOSError(e) /\ ~IsPlainDisconnect(e)
                THEN 1 ELSE 0,
     raised |-> e]

handle_one_request_uncaught(v, e) == [logged |-> 0, escaped |-> e]

\* handle_one_request of server_basic.py: every exception of the request
\* ends here, logged and with the connection closed.  The library's lets
\* it leave the handler.
handle_one_request(v, e) ==
    IF v = "basic"
    THEN IF IsOSError(e)
         THEN [logged |-> IF IsPlainDisconnect(e) THEN 0 ELSE 1,
               escaped |-> NoError]
         ELSE [logged |-> 1, escaped |-> NoError]
    ELSE [logged |-> 0, escaped |-> e]

\* The server's handle_error for an exception that left the handler: the
\* library writes a traceback to stderr; server_basic.py wraps it in
\* handle_error_with_recovery, which swallows what that write raises.
handle_error(v, f) ==
    IF f = NoError THEN [logged |-> 1, raised |-> NoError]
    ELSE IF v = "basic"
    THEN [logged |-> IF IsOSError(f) /\ IsPlainDisconnect(f) THEN 0 ELSE 1,
          raised |-> NoError]
    ELSE [logged |-> 0, raised |-> f]

NoOutcome ==
    [response |-> NoResponse, raised |-> NoError, where |-> "none",
     logs |-> [copyfile |-> 0, handle_one_request |-> 0, handle_error |-> 0],
     escaped |-> NoError, loopError |-> NoError]

\* One request through _handle_request_noblock: the handler, then
\* handle_error if an exception left it.  loopError: what reaches
\* serve_forever.
ProcessRequest(v, idx, r) ==
    LET tx == Transmit(v, Dispatch(v, idx, r), r.fault)
        cf == IF tx.where = "copyfile" THEN copyfile(v, tx.raised)
              ELSE [logged |-> 0, raised |-> tx.raised]
        h1 == IF cf.raised # NoError THEN handle_one_request(v, cf.raised)
              ELSE [logged |-> 0, escaped |-> NoError]
        he == IF h1.escaped # NoError THEN handle_error(v, r.stderr)
              ELSE [logged |-> 0, raised |-> NoError]
    IN  [response |-> tx.response, raised |-> tx.raised, where |-> tx.where,
         logs |-> [copyfile |-> cf.logged,
                   handle_one_request |-> h1.logged,
                   handle_error |-> he.logged],
         escaped |-> h1.escaped, loopError |-> he.raised]

\* ------------------------------------------------------ startup steps
check_index_fatal(idx) == IF idx THEN "ok" ELSE "exit"

\* The index.html test of start_server: a warning when it is missing.
check_index(idx) == IF idx THEN "ok" ELSE "warn"

open_browser_fatal(raises) == [abort |-> raises, warned |-> raises]

\* webbrowser.open inside try/except Exception: a warning when it raises.
open_browser(raises) == [abort |-> FALSE, warned |-> raises]

ReadyTimeout == ReadyTimeoutSeconds * TicksPerSecond

\* Ticks one iteration of check_server_ready takes: the connection
\* attempt (up to its 1 s timeout) and the 0.1 s sleep.
ProbeTicks(probe) ==
    (IF probe = "timeout" THEN ConnectTimeoutSeconds * TicksPerSecond ELSE 0)
    + 1

\* --------------------------------------------------------------- state
VARIABLES
    variant,      \* which program runs
    cli,          \* [given, text]: sys.argv[1], if any
    rootExists,   \* the script's directory exists
    indexExists,  \* it holds index.html
    pc,           \* position of the process
    port,         \* the port start_server is called with
    sock,         \* "none", "unbound", "bound", "listening", "closed"
    httpd,        \* the name httpd is bound to the server object
    isShutDown,   \* the server's __is_shut_down event
    closeCount,   \* calls of server_close
    bindAttempts, \* calls of server_bind
    serveEntered, \* serve_forever has been entered
    elapsed,      \* ticks since check_server_ready started (its local)
    readyResult,  \* "unset", "true", "false"
    warned,       \* startup warnings printed
    req,          \* the last request
    outcome,      \* what became of it
    served,       \* requests handled
    interrupted,  \* where KeyboardInterrupt was raised, or "none"
    everDisconnected, \* a client has gone away in the middle of a response
    pendingCode,  \* exit code of the handler waiting in httpd.shutdown()
    exitCause,    \* why the process is ending
    exitCode      \* -1 while it runs

vars ==
    <<variant, cli, rootExists, indexExists, pc, port, sock, httpd,
      isShutDown, closeCount, bindAttempts, serveEntered, elapsed,
      readyResult, warned, req, outcome, served, interrupted,
      everDisconnected, pendingCode, exitCause, exitCode>>

env == <<variant, cli, rootExists, indexExists>>
server == <<sock, httpd, isShutDown, closeCount, bindAttempts, serveEntered>>
startup == <<elapsed, readyResult, warned>>
traffic == <<req, outcome, served, everDisconnected>>
ending == <<pendingCode, exitCause, exitCode>>

Init ==
    /\ variant \in Variants
    /\ cli \in {[given |-> FALSE, text |-> <<>>]}
               \cup [given : {TRUE}, text : ArgvSamples]
    /\ rootExists \in BOOLEAN
    /\ indexExists \in BOOLEAN
    /\ indexExists => rootExists
    /\ pc = "main"
    /\ port = DEFAULT_PORT
    /\ sock = "none"
    /\ httpd = FALSE
    /\ isShutDown = FALSE
    /\ closeCount = 0
    /\ bindAttempts = 0
    /\ serveEntered = FALSE
    /\ elapsed = 0
    /\ readyResult = "unset"
    /\ warned = {}
    /\ req = NoRequest
    /\ outcome = NoOutcome
    /\ served = 0
    /\ interrupted = "none"
    /\ everDisconnected = FALSE
    /\ pendingCode = -1
    /\ exitCause = "none"
    /\ exitCode = -1

\* sys.exit(code), or the interpreter ending on an uncaught exception.
Exit(code, cause) ==
    /\ pc' = "exited"
    /\ exitCode' = code
    /\ exitCause' = cause
    /\ UNCHANGED pendingCode

\* ------------------------------------------------------------- actions
\* __main__: parse the port argument and call start_server.
Main ==
    /\ pc = "main"
    /\ IF ~cli.given
       THEN /\ pc' = "chdir"
            /\ UNCHANGED <<port, ending>>
       ELSE IF ~IntParses(cli.text)
       THEN /\ Exit(1, "bad_port")
            /\ UNCHANGED port
       ELSE IF PortRejected(variant, int(cli.text))
       THEN /\ Exit(1, "bad_port")
            /\ UNCHANGED port
       ELSE /\ port' = int(cli.text)
            /\ pc' = "chdir"
            /\ UNCHANGED ending
    /\ UNCHANGED <<env, server, startup, traffic, interrupted>>

\* os.chdir(script_dir): OSError when the directory is missing, which ends
\* the process with status 1 in both programs.
Chdir ==
    /\ pc = "chdir"
    /\ IF ~rootExists
       THEN Exit(1, "root_missing")
       ELSE /\ pc' = IF variant = "basic" THEN "check_index" ELSE "create"
            /\ UNCHANGED ending
    /\ UNCHANGED <<env, port, server, startup, traffic, interrupted>>

\* server_basic.py: the index.html test.
CheckIndex ==
    /\ pc = "check_index"
    /\ IF check_index(indexExists) = "exit"
       THEN /\ Exit(1, "index_missing")
            /\ UNCHANGED warned
       ELSE /\ pc' = "create"
            /\ warned' = IF check_index(indexExists) = "warn"
                         THEN warned \cup {"index_missing"} ELSE warned
            /\ UNCHANGED ending
    /\ UNCHANGED <<env, port, server, elapsed, readyResult, traffic,
                   interrupted>>

\* TCPServer(...): the socket is created.  server_basic.py binds httpd
\* now (bind_and_activate=False); server.py when the constructor returns.
Create ==
    /\ pc = "create"
    /\ \E ok \in BOOLEAN :
         IF ok
         THEN /\ sock' = "unbound"
              /\ httpd' = (variant = "basic")
              /\ pc' = "bind"
              /\ UNCHANGED ending
         ELSE /\ Exit(1, "create_error")
              /\ UNCHANGED <<sock, httpd>>
    /\ UNCHANGED <<env, port, isShutDown, closeCount, bindAttempts,
                   serveEntered, startup, traffic, interrupted>>

\* What follows a failed server_bind or server_activate: server_basic.py
\* exits from its except clause; in server.py the constructor closes the
\* socket and re-raises, and the process ends with status 1.
StartFailure(cause) ==
    /\ Exit(1, cause)
    /\ IF variant = "plain"
       THEN sock' = "closed" /\ closeCount' = closeCount + 1
       ELSE UNCHANGED <<sock, closeCount>>

\* server_bind.
Bind ==
    /\ pc = "bind"
    /\ bindAttempts' = bindAttempts + 1
    /\ \E result \in {"ok", "in_use", "other"} :
         IF BindAcceptsPort(port) /\ result = "ok"
         THEN /\ sock' = "bound"
              /\ pc' = "activate"
              /\ UNCHANGED <<closeCount, ending>>
         ELSE StartFailure("bind_error")
    /\ UNCHANGED <<env, port, httpd, isShutDown, serveEntered, startup,
                   traffic, interrupted>>

\* server_activate: listen().
Activate ==
    /\ pc = "activate"
    /\ \E ok \in BOOLEAN :
         IF ok
         THEN /\ sock' = "listening"
              /\ httpd' = TRUE
              /\ pc' = IF variant = "basic" THEN "sleep" ELSE "banner"
              /\ UNCHANGED <<closeCount, ending>>
         ELSE /\ StartFailure("bind_error")
              /\ UNCHANGED httpd
    /\ UNCHANGED <<env, port, isShutDown, bindAttempts, serveEntered,
                   startup, traffic, interrupted>>

\* server_basic.py: time.sleep(0.2) after the bind.
Sleep ==
    /\ pc = "sleep"
    /\ pc' = "ready_check"
    /\ UNCHANGED <<env, port, server, startup, traffic, interrupted, ending>>

\* One pass of check_server_ready's loop, or its return.
CheckServerReady ==
    /\ pc = "ready_check"
    /\ IF elapsed < ReadyTimeout
       THEN \E probe \in {"connected", "refused", "timeout", "raised"} :
              IF probe = "connected"
              THEN /\ readyResult' = "true"
                   /\ pc' = "banner"
                   /\ elapsed' = 0
                   /\ UNCHANGED warned
              ELSE /\ elapsed' = elapsed + ProbeTicks(probe)
                   /\ UNCHANGED <<pc, readyResult, warned>>
       ELSE /\ readyResult' = "false"
            /\ warned' = warned \cup {"ready_timeout"}
            /\ pc' = "banner"
            /\ elapsed' = 0
    /\ UNCHANGED <<env, port, server, traffic, interrupted, ending>>

\* The start-up banner and the flushes.
Banner ==
    /\ pc = "banner"
    /\ pc' = "browser"
    /\ UNCHANGED <<env, port, server, startup, traffic, interrupted, ending>>

\* webbrowser.open(url).
OpenBrowser ==
    /\ pc = "browser"
    /\ \E raises \in BOOLEAN :
         IF open_browser(raises).abort
         THEN /\ Exit(1, "browser")
              /\ UNCHANGED warned
         ELSE /\ pc' = "serve"
              /\ warned' = IF open_browser(raises).warned
                           THEN warned \cup {"browser"} ELSE warned
              /\ UNCHANGED ending
    /\ UNCHANGED <<env, port, server, elapsed, readyResult, traffic,
                   interrupted>>

\* httpd.serve_forever() is entered: it clears __is_shut_down.
ServeForever ==
    /\ pc = "serve"
    /\ pc' = "serving"
    /\ isShutDown' = FALSE
    /\ serveEntered' = TRUE
    /\ UNCHANGED <<env, port, sock, httpd, closeCount, bindAttempts,
                   startup, traffic, interrupted, ending>>

\* serve_forever handles one connection.  An exception that reaches the
\* loop leaves serve_forever (its finally sets __is_shut_down) for the
\* except Exception clause around it.
HandleRequest ==
    /\ pc = "serving"
    /\ served < MaxRequests
    /\ \E r \in Requests :
         LET o == ProcessRequest(variant, indexExists, r) IN
         /\ req' = r
         /\ outcome' = o
         /\ served' = served + 1
         /\ everDisconnected' =
              (everDisconnected \/ o.raised \in ConnectionErrors)
         /\ IF o.loopError # NoError
            THEN /\ isShutDown' = TRUE
                 /\ pc' = "shutdown"
                 /\ pendingCode' = 1
                 /\ exitCause' = "serve_error"
                 /\ UNCHANGED exitCode
            ELSE UNCHANGED <<pc, isShutDown, ending>>
    /\ UNCHANGED <<env, port, sock, httpd, closeCount, bindAttempts,
                   serveEntered, startup, interrupted>>

\* httpd.shutdown() returns once __is_shut_down is set; then
\* httpd.server_close() and sys.exit.
Shutdown ==
    /\ pc = "shutdown"
    /\ isShutDown
    /\ sock' = "closed"
    /\ closeCount' = closeCount + 1
    /\ pc' = "exited"
    /\ exitCode' = pendingCode
    /\ UNCHANGED <<env, port, httpd, isShutDown, bindAttempts, serveEntered,
                   startup, traffic, interrupted, pendingCode, exitCause>>

InStartServer ==
    pc \in {"chdir", "check_index", "create", "bind", "activate", "sleep",
            "ready_check", "banner", "browser", "serve"}

\* KeyboardInterrupt.  Inside serve_forever both programs go to their
\* shutdown clause.  Before it, server_basic.py exits 0 from the outer
\* except KeyboardInterrupt clauses; server.py has none, and inside the
\* constructor's bind and activate the library closes the socket first.
Interrupt ==
    /\ pc \in {"main", "serving"} \/ InStartServer
    /\ interrupted' = pc
    /\ IF pc = "serving"
       THEN /\ isShutDown' = TRUE
            /\ pc' = "shutdown"
            /\ pendingCode' = 0
            /\ exitCause' = "interrupt"
            /\ UNCHANGED <<sock, closeCount, exitCode>>
       ELSE /\ Exit(IF variant = "basic" THEN 0 ELSE UncaughtInterruptStatus,
                    "interrupt")
            /\ IF variant = "plain" /\ pc \in {"bind", "activate"}
               THEN sock' = "closed" /\ closeCount' = closeCount + 1
               ELSE UNCHANGED <<sock, closeCount>>
            /\ UNCHANGED isShutDown
    /\ UNCHANGED <<env, port, httpd, bindAttempts, serveEntered, startup,
                   traffic>>

\* An exception out of the banner's prints and flushes (stdout closed or
\* missing).  server_basic.py: an OSError exits 1; any other Exception
\* reaches the clause that calls httpd.shutdown() first.  server.py: exit
\* 1 either way.
BannerError ==
    /\ pc = "banner"
    /\ \E cls \in {"OSError", "Exception"} :
         IF variant = "basic" /\ cls = "Exception" /\ httpd
         THEN /\ pc' = "shutdown"
              /\ pendingCode' = 1
              /\ exitCause' = "unexpected"
              /\ UNCHANGED exitCode
         ELSE Exit(1, "unexpected")
    /\ UNCHANGED <<env, port, server, startup, traffic, interrupted>>

Next ==
    \/ Main
    \/ Chdir
    \/ CheckIndex
    \/ Create
    \/ Bind
    \/ Activate
    \/ Sleep
    \/ CheckServerReady
    \/ Banner
    \/ OpenBrowser
    \/ ServeForever
    \/ HandleRequest
    \/ Shutdown
    \/ Interrupt
    \/ BannerError

Spec == Init /\ [][Next]_vars

\* check_server_ready is straight-line code of a running process: a pass
\* of its loop that can be taken is taken.
FairSpec == Spec /\ WF_vars(CheckServerReady)

\* ------------------------------------------------------------- claims
ValidPortArgument ==
    /\ IntParses(cli.text)
    /\ int(cli.text) >= MinPort
    /\ int(cli.text) <= MaxPort

Disconnected == served > 0 /\ outcome.raised \in ConnectionErrors

TotalLogs ==
    outcome.logs.copyfile + outcome.logs.handle_one_request
    + outcome.logs.handle_error

\* C1: in server_basic.py a connection error raised while a response is
\* written never leaves the request handler and never reaches
\* serve_forever: the server is still serving (or ends on an interrupt
\* only), and a request without a fault gets its complete response.  In
\* either program nothing reaches serve_forever while stderr is writable.
C1_DisconnectContained ==
    /\ (variant = "basic" /\ Disconnected) =>
          /\ outcome.escaped = NoError
          /\ outcome.loopError = NoError
    /\ (variant = "basic" /\ everDisconnected) =>
          /\ pc \in {"serving", "shutdown", "exited"}
          /\ exitCause \in {"none", "interrupt"}
    /\ (Disconnected /\ req.stderr = NoError) => outcome.loopError = NoError
    /\ (served > 0 /\ outcome.raised = NoError) => outcome.response.complete

\* A disconnect, then a later request served in full by the same loop.
C1_Witness ==
    /\ variant = "basic"
    /\ pc = "serving"
    /\ everDisconnected
    /\ served = 2
    /\ req.method = "GET"
    /\ outcome.raised = NoError
    /\ outcome.response.status = 200
    /\ outcome.response.body = "file"
    /\ outcome.response.complete

\* C2: one disconnect raised inside copyfile is logged at most once by
\* copyfile, handle_one_request and handle_error together.
C2_LoggedAtMostOnce ==
    (served > 0 /\ outcome.where = "copyfile") => TotalLogs <= 1

\* C3: an interrupt arriving once the socket is bound (post-bind delay,
\* readiness check, browser launch, serve_forever) leaves the process
\* exited with the socket closed exactly once; one arriving before the
\* socket exists closes nothing.
C3_ClosedExactlyOnce ==
    /\ (pc = "exited"
        /\ interrupted \in {"sleep", "ready_check", "browser", "serving"})
          => (closeCount = 1 /\ sock = "closed")
    /\ (pc = "exited"
        /\ interrupted \in {"main", "chdir", "check_index", "create"})
          => (closeCount = 0 /\ sock = "none")

\* C4: exit code 0 only after an interrupt; a fatal start-up or run-time
\* error ends the process with code 1 (it has exited with 1, or its
\* handler's httpd.shutdown() is able to return and exit 1 follows);
\* after a failed bind or activate the server never serves and never
\* binds again.
C4_ExitCodeMapping ==
    /\ exitCode = 0 => (exitCause = "interrupt" /\ interrupted # "none")
    /\ exitCause \notin {"none", "interrupt"} =>
          \/ pc = "exited" /\ exitCode = 1
          \/ pc = "shutdown" /\ isShutDown /\ pendingCode = 1
    /\ exitCause = "bind_error" =>
          /\ pc = "exited"
          /\ exitCode = 1
          /\ ~serveEntered
          /\ sock # "listening"
          /\ bindAttempts = 1

\* C4 on the runs that do exit: code 0 only after an interrupt, code 1
\* for every other cause.
C4_ExitCodesOnExit ==
    /\ exitCode = 0 => (exitCause = "interrupt" /\ interrupted # "none")
    /\ (pc = "exited" /\ exitCause # "interrupt") => exitCode = 1

\* C5: with a port argument that is not an integer in 1..65535 the
\* process never gets past argument parsing, creates no socket and exits
\* non-zero; start_server only ever runs with a port in 1..65535.
C5_PortValidated ==
    /\ (cli.given /\ ~ValidPortArgument) =>
          /\ pc \in {"main", "exited"}
          /\ sock = "none"
          /\ (pc = "exited" /\ interrupted = "none") => exitCode > 0
    /\ pc # "main" /\ exitCause # "bad_port" =>
          (port >= MinPort /\ port <= MaxPort)

\* C6: when translate_path raises in server_basic.py's handler, the
\* client is answered 404 and the loop goes on.
C6_TranslateErrorIs404 ==
    (variant = "basic" /\ served > 0 /\ outcome.where = "translate_path") =>
        /\ outcome.response.status = 404
        /\ outcome.loopError = NoError

\* C7: an OPTIONS request whose response is written without a fault gets
\* 200, no body and the four CORS headers, whatever the path.
C7_OptionsAlways200 ==
    (served > 0 /\ req.method = "OPTIONS" /\ outcome.raised = NoError) =>
        /\ outcome.response.status = 200
        /\ outcome.response.body = "none"
        /\ CORSHeaders \subseteq outcome.response.headers

\* C8 as stated: with the root directory missing, a run that ends for any
\* reason but an interrupt or a bad argument has tried to bind.
C8_MissingRootIsWarning ==
    (~rootExists /\ pc = "exited"
     /\ exitCause \notin {"interrupt", "bad_port"}) => bindAttempts > 0

\* C8 amended: a missing index.html is a warning and start-up goes on to
\* create and bind the socket; a missing root directory is fatal, exit 1
\* before any socket exists.
C8_MissingIndexIsWarning ==
    /\ ~rootExists =>
          /\ sock = "none"
          /\ bindAttempts = 0
          /\ pc \in {"main", "chdir", "exited"}
          /\ (pc = "exited" /\ interrupted = "none") => exitCode = 1
    /\ (rootExists /\ ~indexExists /\ pc = "exited" /\ sock = "none") =>
          exitCause \in {"interrupt", "bad_port", "create_error"}

\* Listening, with the missing index.html only warned about.
C8_Witness ==
    /\ rootExists
    /\ ~indexExists
    /\ "index_missing" \in warned
    /\ sock = "listening"
    /\ pc = "serving"

\* C9: no process exit leaves the socket bound but not listening.
C9_NeverBoundWithoutListening ==
    (pc = "exited" /\ interrupted = "none") => sock # "bound"

\* C10: whatever check_server_ready returns and whether or not
\* webbrowser.open raises, start-up goes on to serve_forever; and
\* check_server_ready's loop is bounded: every pass advances the clock,
\* which never passes the timeout by more than one pass, and the call
\* always comes to an end.
C10_BestEffortStartup ==
    /\ [][(pc = "ready_check" /\ pc' # "ready_check"
           /\ interrupted' = "none")
            => (pc' = "banner" /\ readyResult' \in {"true", "false"})]_vars
    /\ [][(pc = "browser" /\ interrupted' = "none") => pc' = "serve"]_vars
    /\ [][(pc = "ready_check" /\ pc' = "ready_check")
            => elapsed' > elapsed]_vars
    /\ [](elapsed < ReadyTimeout + ProbeTicks("timeout"))
    /\ [](serveEntered => readyResult \in
            (IF variant = "basic" THEN {"true", "false"} ELSE {"unset"}))
    /\ [](pc = "ready_check" => <>(pc # "ready_check"))

\* Serving after the readiness check timed out and the browser failed.
C10_Witness ==
    /\ pc = "serving"
    /\ readyResult = "false"
    /\ {"ready_timeout", "browser"} \subseteq warned

\* C11: httpd.shutdown() is only called on a server whose serve_forever
\* has been entered and has returned, so the call returns: a handler
\* that has reached its cleanup can always go on to server_close and
\* the exit.
C11_CleanupTerminates ==
    pc = "shutdown" =>
        /\ serveEntered
        /\ isShutDown
        /\ ENABLED Shutdown

====
